---- MODULE Spec2Model ----
(***************************************************************************)
(* Model of src/src/main.cpp: an M5Stack BLE peripheral.  The BLE stack    *)
(* delivers onConnect / onDisconnect / onWrite callbacks; the Arduino      *)
(* loop task polls isConnected and repaints the screen.  The callbacks run *)
(* in the BLE task and the loop in the loop task, so a callback may run    *)
(* between any two steps of loop().                                        *)
(***************************************************************************)
EXTENDS Integers, Sequences, FiniteSets, TLC

(* ------------------------------ bounds -------------------------------- *)
\* longest inbound payload the peer writes
MaxLen == 2
\* number of onConnect / onDisconnect / onWrite deliveries explored
MaxConnects == 2
MaxDisconnects == 2
MaxWrites == 2
\* the clock stops advancing here (milliseconds since power-up)
MaxTime == 12200
MaxCalls == 2

(* ------------------------- program constants -------------------------- *)
SETUP_DELAY == 1000
UPDATE_INTERVAL == 5000
GC_INTERVAL == 10000
LOOP_DELAY == 200
RSA_OUT_MAX == 256
\* uint32_t connectionCount: the 32-bit pattern is written as its
\* two's-complement integer, so -1 stands for 0xFFFFFFFF (what "%d" prints)
INT32_MAX == 2147483647

\* bytes the peer may send: 0 is NUL, 1 is an ordinary printable byte
PayloadBytes == {0, 1}
RECURSIVE SeqsUpTo(_)
SeqsUpTo(n) ==
  IF n = 0 THEN {<<>>}
  ELSE LET shorter == SeqsUpTo(n - 1)
       IN  shorter \cup {Append(s, b) : s \in {t \in shorter : Len(t) = n - 1}, b \in PayloadBytes}
Payloads == SeqsUpTo(MaxLen)

\* "Received!"
ACK_TEXT == <<82, 101, 99, 101, 105, 118, 101, 100, 33>>
\* "Ready for encrypted data"
READY_ENC_TEXT == <<82, 101, 97, 100, 121, 32, 102, 111, 114, 32, 101, 110, 99, 114,
                    121, 112, 116, 101, 100, 32, 100, 97, 116, 97>>
\* "RSA not available - plain text only"
READY_PLAIN_TEXT == <<82, 83, 65, 32, 110, 111, 116, 32, 97, 118, 97, 105, 108, 97, 98,
                      108, 101, 32, 45, 32, 112, 108, 97, 105, 110, 32, 116, 101, 120,
                      116, 32, 111, 110, 108, 121>>

(* ------------------------------ helpers ------------------------------- *)
\* ++ and -- on a uint32_t
Inc32(x) == IF x = INT32_MAX THEN -INT32_MAX - 1 ELSE x + 1
Dec32(x) == IF x = -INT32_MAX - 1 THEN INT32_MAX ELSE x - 1

SetMin(S) == CHOOSE m \in S : \A x \in S : m <= x

\* std::string::c_str() read as a C string: the bytes before the first NUL
c_str(value) ==
  LET nuls == {i \in 1..Len(value) : value[i] = 0}
  IN  IF nuls = {} THEN value ELSE SubSeq(value, 1, SetMin(nuls) - 1)

(* ------------------------------- state -------------------------------- *)
VARIABLES
  \* globals of main.cpp
  isConnected, connectionCount, lastState, rsaInitialized,
  lastMessage, messageCount, messageDisplayed,
  startTime, lastUpdate, lastGC,
  \* loop task: position in setup()/loop() and loop()'s local currentTime
  pc, currentTime,
  \* BLE stack: advertising flag, callbacks registered, characteristic
  \* value, number of notify() calls
  advertising, bleUp, charValue, notifyCount,
  \* millis()
  now,
  \* display contents
  screen,
  \* history: how key loading ended, resource use of initRSA, where the
  \* try block of setup threw, deliveries
  \* of each callback, payload of the last onWrite
  keyCause, keyTrace, bootThrow, nConnect, nDisconnect, nWrites, inbound,
  \* environment: the radio currently refuses to start advertising
  radioBusy,
  \* calls of decryptRSA made so far, the result of the latest one and the
  \* caller's output buffer before and after it
  decryptCall

globals == <<isConnected, connectionCount, lastState, rsaInitialized,
             lastMessage, messageCount, messageDisplayed,
             startTime, lastUpdate, lastGC>>
task == <<pc, currentTime>>
stack == <<advertising, bleUp, charValue, notifyCount>>
history == <<keyCause, keyTrace, bootThrow, nConnect, nDisconnect, nWrites, inbound>>
world == <<radioBusy, decryptCall>>
vars == <<globals, task, stack, now, screen, history, world>>

BlankScreen ==
  [kind |-> "blank", rsa |-> "none", count |-> 0, msg |-> <<>>, data |-> "none", secs |-> 0]
\* decryptRSA has not been called
NoDecryptCall ==
  [n |-> 0, ret |-> FALSE, pkCalls |-> 0,
   before |-> [decryptedData |-> <<>>, decryptedLen |-> 0],
   decryptedData |-> <<>>, decryptedLen |-> 0]
NoKeyTrace == [calls |-> 0, opens |-> 0, closes |-> 0, mallocs |-> 0, frees |-> 0, ops |-> <<>>]

Init ==
  /\ isConnected = FALSE
  /\ connectionCount = 0
  /\ lastState = FALSE
  /\ rsaInitialized = FALSE
  /\ lastMessage = <<>>
  /\ messageCount = 0
  /\ messageDisplayed = FALSE
  /\ startTime = 0
  /\ lastUpdate = 0
  /\ lastGC = 0
  /\ pc = "setup"
  /\ currentTime = 0
  /\ advertising = FALSE
  /\ bleUp = FALSE
  /\ charValue = <<>>
  /\ notifyCount = 0
  /\ now = 0
  /\ screen = BlankScreen
  /\ keyCause = "none"
  /\ keyTrace = NoKeyTrace
  /\ bootThrow = "none"
  /\ nConnect = 0
  /\ nDisconnect = 0
  /\ nWrites = 0
  /\ inbound = <<>>
  /\ radioBusy = FALSE
  /\ decryptCall = NoDecryptCall

(* --------------------------- key and decrypt -------------------------- *)
\* what the platform answers during initRSA(): DRBG seeding, opening
\* /private.pem, malloc of the read buffer, parsing the key
KeyEnvs == [seed : BOOLEAN, file : BOOLEAN, malloc : BOOLEAN, parse : BOOLEAN]

\* how many times operation op occurs in a sequence of operations
Occurrences(ops, op) == Cardinality({i \in DOMAIN ops : ops[i] = op})

\* the record of one initRSA() call: the operations on keyFile and keyBuffer
\* in program order, and how many opens, closes, mallocs and frees succeeded
KeyTrace(ops) ==
  [calls |-> 1,
   opens |-> Occurrences(ops, "open"), closes |-> Occurrences(ops, "close"),
   mallocs |-> Occurrences(ops, "malloc"), frees |-> Occurrences(ops, "free"),
   ops |-> ops]

\* initRSA that returns from the failed malloc without closing keyFile
initRSA_leaksFile(env) ==
  IF ~env.seed THEN [ret |-> FALSE, cause |-> "seed", trace |-> KeyTrace(<<>>)]
  ELSE IF ~env.file THEN [ret |-> FALSE, cause |-> "open", trace |-> KeyTrace(<<>>)]
  ELSE IF ~env.malloc
       THEN [ret |-> FALSE, cause |-> "alloc", trace |-> KeyTrace(<<"open", "size">>)]
  ELSE IF ~env.parse
       THEN [ret |-> FALSE, cause |-> "parse",
             trace |-> KeyTrace(<<"open", "size", "malloc", "readBytes", "store",
                                  "close", "parse", "free">>)]
  ELSE [ret |-> TRUE, cause |-> "ok",
        trace |-> KeyTrace(<<"open", "size", "malloc", "readBytes", "store",
                             "close", "parse", "free">>)]

\* bool initRSA(): result, the reason of a failure, and the file/buffer
\* operations performed on the path taken.  "open" and "malloc" are recorded
\* when they succeed; "size" and "readBytes" use keyFile; "readBytes",
\* "store" (keyBuffer[keySize] = 0) and "parse" use keyBuffer.
initRSA(env) ==
  IF ~env.seed THEN [ret |-> FALSE, cause |-> "seed", trace |-> KeyTrace(<<>>)]
  ELSE IF ~env.file THEN [ret |-> FALSE, cause |-> "open", trace |-> KeyTrace(<<>>)]
  ELSE IF ~env.malloc
       THEN [ret |-> FALSE, cause |-> "alloc",
             trace |-> KeyTrace(<<"open", "size", "close">>)]
  ELSE IF ~env.parse
       THEN [ret |-> FALSE, cause |-> "parse",
             trace |-> KeyTrace(<<"open", "size", "malloc", "readBytes", "store",
                                  "close", "parse", "free">>)]
  ELSE [ret |-> TRUE, cause |-> "ok",
        trace |-> KeyTrace(<<"open", "size", "malloc", "readBytes", "store",
                             "close", "parse", "free">>)]

\* mbedtls_pk_decrypt with the loaded key, over a two-symbol alphabet: a
\* ciphertext is well formed when its first byte is the padding marker 1,
\* and the plaintext is the rest with every byte complemented.  Returns 0 or
\* a negative mbedtls error code.
mbedtls_pk_decrypt(input, osize) ==
  IF Len(input) = 0 \/ input[1] # 1 THEN [ret |-> -16640, out |-> <<>>, olen |-> 0]
  ELSE IF Len(input) - 1 > osize THEN [ret |-> -17408, out |-> <<>>, olen |-> 0]
  ELSE [ret |-> 0,
        out |-> [i \in 1..(Len(input) - 1) |-> 1 - input[i + 1]],
        olen |-> Len(input) - 1]

\* decryptRSA that goes to the decrypt primitive whatever rsaInitialized is
decryptRSA_noInitTest(initialized, encryptedData) ==
  LET r == mbedtls_pk_decrypt(encryptedData, RSA_OUT_MAX)
  IN  IF r.ret # 0
      THEN [ret |-> FALSE, pkCalled |-> TRUE, outWritten |-> FALSE, data |-> <<>>, len |-> 0]
      ELSE [ret |-> TRUE, pkCalled |-> TRUE, outWritten |-> TRUE, data |-> r.out, len |-> r.olen]

\* bool decryptRSA(encryptedData, encryptedLen, decryptedData, decryptedLen)
decryptRSA(initialized, encryptedData) ==
  IF ~initialized
  THEN [ret |-> FALSE, pkCalled |-> FALSE, outWritten |-> FALSE, data |-> <<>>, len |-> 0]
  ELSE LET r == mbedtls_pk_decrypt(encryptedData, RSA_OUT_MAX)
       IN  IF r.ret # 0
           THEN [ret |-> FALSE, pkCalled |-> TRUE, outWritten |-> FALSE, data |-> <<>>, len |-> 0]
           ELSE [ret |-> TRUE, pkCalled |-> TRUE, outWritten |-> TRUE, data |-> r.out, len |-> r.olen]

(* ------------------------------ display ------------------------------- *)
RsaLabel == IF rsaInitialized THEN "on" ELSE "off"

\* fillScreen(TFT_BLUE); "BLE Ready!"; "RSA: Enabled/Disabled"
ReadyScreen(rsa) == [BlankScreen EXCEPT !.kind = "ready", !.rsa = IF rsa THEN "on" ELSE "off"]
\* fillScreen(TFT_RED) after the two labels: a red screen
ErrorScreen == [BlankScreen EXCEPT !.kind = "error"]
\* green "Connected!" screen with the RSA label
ConnectedScreen == [BlankScreen EXCEPT !.kind = "connected", !.rsa = RsaLabel]
\* blue "Waiting..." screen, with "Messages: n" once a message was counted
WaitingScreen ==
  [BlankScreen EXCEPT !.kind = "waiting", !.rsa = RsaLabel,
                      !.data = IF messageCount > 0 THEN "messages" ELSE "none",
                      !.count = IF messageCount > 0 THEN messageCount ELSE 0]

\* void displayMessage(const char* message): count is the value of the
\* global messageCount when it runs
displayMessage(message, count) ==
  /\ screen' = [BlankScreen EXCEPT !.kind = "message", !.count = count, !.msg = message]
  /\ lastMessage' = message
  /\ messageDisplayed' = TRUE

(* ------------------------------- setup -------------------------------- *)
\* BLEDevice::startAdvertising(): returns void; advertising starts unless
\* the radio refuses the request
startAdvertising == advertising' = (advertising \/ ~radioBusy)

\* statement of the try block at which the BLE stack throws, if any
ThrowPoints == {"none", "init", "createServer", "createService"}
\* delay(1000) calls executed before that statement (all seven when none)
DelaysBefore(throwAt) ==
  CASE throwAt = "init" -> 2
    [] throwAt = "createServer" -> 4
    [] throwAt = "createService" -> 6
    [] OTHER -> 7

\* lines 231-262: mount the filesystem and load the key
LoadKey(mountOk, env) ==
  IF mountOk THEN initRSA(env)
  ELSE [ret |-> FALSE, cause |-> "mount", trace |-> NoKeyTrace]

\* setup that brings BLE up only when the key was loaded
BleInit_needsKey(rsa, throwAt) ==
  LET t == now + DelaysBefore(throwAt) * SETUP_DELAY
  IN  /\ now' = t
      /\ IF throwAt = "none" /\ rsa
         THEN /\ bleUp' = TRUE
              /\ charValue' = READY_ENC_TEXT
              /\ startAdvertising
              /\ screen' = ReadyScreen(rsa)
              /\ startTime' = t /\ lastUpdate' = t /\ lastGC' = t
         ELSE /\ screen' = ErrorScreen
              /\ UNCHANGED <<bleUp, charValue, advertising, startTime, lastUpdate, lastGC>>

\* lines 264-345: the try block and its handler
BleInit(rsa, throwAt) ==
  LET t == now + DelaysBefore(throwAt) * SETUP_DELAY
  IN  /\ now' = t
      /\ IF throwAt = "none"
         THEN /\ bleUp' = TRUE
              /\ charValue' = IF rsa THEN READY_ENC_TEXT ELSE READY_PLAIN_TEXT
              /\ startAdvertising
              /\ screen' = ReadyScreen(rsa)
              /\ startTime' = t /\ lastUpdate' = t /\ lastGC' = t
         ELSE /\ screen' = ErrorScreen
              /\ UNCHANGED <<bleUp, charValue, advertising, startTime, lastUpdate, lastGC>>

Setup ==
  /\ pc = "setup"
  /\ \E mountOk \in BOOLEAN, env \in KeyEnvs, throwAt \in ThrowPoints :
       LET key == LoadKey(mountOk, env)
       IN  /\ rsaInitialized' = key.ret
           /\ keyCause' = key.cause
           /\ keyTrace' = key.trace
           /\ bootThrow' = throwAt
           /\ BleInit(key.ret, throwAt)
  /\ pc' = "poll"
  /\ UNCHANGED <<world, isConnected, connectionCount, lastState, lastMessage, messageCount,
                 messageDisplayed, currentTime, notifyCount,
                 nConnect, nDisconnect, nWrites, inbound>>

(* ----------------------------- callbacks ------------------------------ *)
\* MyServerCallbacks::onConnect
onConnect ==
  /\ isConnected' = TRUE
  /\ connectionCount' = Inc32(connectionCount)

\* onDisconnect that forgets to clear the flag
onDisconnect_keepsFlag ==
  /\ isConnected' = isConnected
  /\ connectionCount' = Dec32(connectionCount)
  /\ startAdvertising

\* onDisconnect that only records the disconnect and leaves advertising off
onDisconnect_noRestart ==
  /\ isConnected' = FALSE
  /\ connectionCount' = Dec32(connectionCount)
  /\ advertising' = advertising

\* onDisconnect that leaves the counter alone
onDisconnect_noDecrement ==
  /\ isConnected' = FALSE
  /\ connectionCount' = connectionCount
  /\ startAdvertising

\* MyServerCallbacks::onDisconnect
onDisconnect ==
  /\ isConnected' = FALSE
  /\ connectionCount' = Dec32(connectionCount)
  /\ startAdvertising

\* onWrite without the length test: an empty write is handled like a message
onWrite_noLengthTest(value) ==
  /\ messageCount' = messageCount + 1
  /\ displayMessage(c_str(value), messageCount + 1)
  /\ charValue' = ACK_TEXT
  /\ notifyCount' = notifyCount + 1

\* onWrite that counts the write before looking at its length
onWrite_countsFirst(value) ==
  IF Len(value) > 0
  THEN /\ messageCount' = messageCount + 1
       /\ displayMessage(c_str(value), messageCount + 1)
       /\ charValue' = ACK_TEXT
       /\ notifyCount' = notifyCount + 1
  ELSE /\ messageCount' = messageCount + 1
       /\ charValue' = value
       /\ UNCHANGED <<lastMessage, messageDisplayed, screen, notifyCount>>

\* MyCharacteristicCallbacks::onWrite; value is pCharacteristic->getValue()
onWrite(value) ==
  IF Len(value) > 0
  THEN /\ messageCount' = messageCount + 1
       /\ displayMessage(c_str(value), messageCount + 1)
       /\ charValue' = ACK_TEXT
       /\ notifyCount' = notifyCount + 1
  ELSE /\ charValue' = value
       /\ UNCHANGED <<messageCount, lastMessage, messageDisplayed, screen, notifyCount>>

\* A central connects.  Only an advertising peripheral can be connected
\* to, and the link layer ends connectable advertising when the connection
\* is established.
PeerConnect ==
  /\ bleUp /\ advertising /\ ~isConnected
  /\ nConnect < MaxConnects
  /\ onConnect
  /\ advertising' = FALSE
  /\ nConnect' = nConnect + 1
  /\ UNCHANGED <<world, lastState, rsaInitialized, lastMessage, messageCount, messageDisplayed,
                 startTime, lastUpdate, lastGC, task, bleUp, charValue, notifyCount,
                 now, screen, keyCause, keyTrace, bootThrow, nDisconnect, nWrites, inbound>>

\* The link reports a disconnect; the report of a disconnect may be
\* repeated, so it can arrive when isConnected is already false.
PeerDisconnect ==
  /\ bleUp /\ nConnect > 0
  /\ nDisconnect < MaxDisconnects
  /\ onDisconnect
  /\ nDisconnect' = nDisconnect + 1
  /\ UNCHANGED <<world, lastState, rsaInitialized, lastMessage, messageCount, messageDisplayed,
                 startTime, lastUpdate, lastGC, task, bleUp, charValue, notifyCount,
                 now, screen, keyCause, keyTrace, bootThrow, nConnect, nWrites, inbound>>

\* The connected central writes the characteristic: the stack stores the
\* written bytes as the characteristic's value and calls onWrite.
PeerWrite ==
  /\ bleUp /\ isConnected
  /\ nWrites < MaxWrites
  /\ \E payload \in Payloads :
       /\ onWrite(payload)
       /\ inbound' = payload
  /\ nWrites' = nWrites + 1
  /\ UNCHANGED <<world, isConnected, connectionCount, lastState, rsaInitialized,
                 startTime, lastUpdate, lastGC, task, advertising, bleUp,
                 now, keyCause, keyTrace, bootThrow, nConnect, nDisconnect>>

(* -------------------------------- loop -------------------------------- *)
\* lines 349-355: read millis(), compare isConnected with lastState
LoopPoll ==
  /\ pc = "poll"
  /\ currentTime' = now
  /\ IF isConnected # lastState
     THEN messageDisplayed' = FALSE /\ pc' = "paint"
     ELSE messageDisplayed' = messageDisplayed /\ pc' = "timers"
  /\ UNCHANGED <<world, isConnected, connectionCount, lastState, rsaInitialized, lastMessage,
                 messageCount, startTime, lastUpdate, lastGC, stack, now, screen, history>>

\* lines 357-383: repaint for the state isConnected has now
LoopPaint ==
  /\ pc = "paint"
  /\ screen' = IF isConnected THEN ConnectedScreen ELSE WaitingScreen
  /\ pc' = "commit"
  /\ UNCHANGED <<world, globals, currentTime, stack, now, history>>

\* loop that tries to load the key again while decryption is disabled
LoopCommit_retriesKey ==
  /\ pc = "commit"
  /\ lastState' = isConnected
  /\ pc' = "timers"
  /\ \E env \in KeyEnvs :
       /\ rsaInitialized' = IF rsaInitialized THEN TRUE ELSE initRSA(env).ret
       /\ keyTrace' = IF rsaInitialized THEN keyTrace
                      ELSE [keyTrace EXCEPT !.calls = keyTrace.calls + 1]
  /\ UNCHANGED <<world, isConnected, connectionCount, lastMessage, messageCount,
                 messageDisplayed, startTime, lastUpdate, lastGC, currentTime, stack, now,
                 screen, keyCause, bootThrow, nConnect, nDisconnect, nWrites, inbound>>

\* line 384
LoopCommit ==
  /\ pc = "commit"
  /\ lastState' = isConnected
  /\ pc' = "timers"
  /\ UNCHANGED <<world, isConnected, connectionCount, rsaInitialized, lastMessage, messageCount,
                 messageDisplayed, startTime, lastUpdate, lastGC, currentTime, stack, now,
                 screen, history>>

\* lines 387-404: the 5 s elapsed-time line, the 10 s heap log, delay(200)
LoopTimers ==
  /\ pc = "timers"
  /\ IF ~messageDisplayed /\ currentTime - lastUpdate >= UPDATE_INTERVAL
     THEN /\ screen' = IF ~isConnected
                       THEN [screen EXCEPT !.data = "time",
                                           !.secs = (currentTime - startTime) \div 1000]
                       ELSE screen
          /\ lastUpdate' = currentTime
     ELSE UNCHANGED <<screen, lastUpdate>>
  /\ lastGC' = IF currentTime - lastGC >= GC_INTERVAL THEN currentTime ELSE lastGC
  /\ now' = IF now + LOOP_DELAY <= MaxTime THEN now + LOOP_DELAY ELSE now
  /\ pc' = "poll"
  /\ UNCHANGED <<world, isConnected, connectionCount, lastState, rsaInitialized, lastMessage,
                 messageCount, messageDisplayed, startTime, currentTime, stack, history>>

Next ==
  \/ Setup
  \/ PeerConnect
  \/ PeerDisconnect
  \/ PeerWrite
  \/ LoopPoll
  \/ LoopPaint
  \/ LoopCommit
  \/ LoopTimers

Spec == Init /\ [][Next]_vars

\* A call decryptRSA(encryptedData, n, decryptedData, &decryptedLen) made
\* after setup, on a caller's buffer and length holding arbitrary contents.
DecryptCall ==
  /\ pc # "setup"
  /\ decryptCall.n < MaxCalls
  /\ \E encryptedData \in Payloads, buffer \in Payloads, len \in 0..MaxLen :
       LET r == decryptRSA(rsaInitialized, encryptedData)
       IN  decryptCall' =
             [n |-> decryptCall.n + 1,
              ret |-> r.ret,
              pkCalls |-> decryptCall.pkCalls + (IF r.pkCalled THEN 1 ELSE 0),
              before |-> [decryptedData |-> buffer, decryptedLen |-> len],
              decryptedData |-> IF r.outWritten THEN r.data ELSE buffer,
              decryptedLen |-> IF r.outWritten THEN r.len ELSE len]
  /\ UNCHANGED <<globals, task, stack, now, screen, history, radioBusy>>

\* The radio becomes unavailable (controller busy): a request to start
\* advertising made now has no effect.  Advertising already running goes on.
RadioRefuses ==
  /\ ~radioBusy
  /\ radioBusy' = TRUE
  /\ UNCHANGED <<globals, task, stack, now, screen, history, decryptCall>>

\* The radio accepts requests again.
RadioAccepts ==
  /\ radioBusy
  /\ radioBusy' = FALSE
  /\ UNCHANGED <<globals, task, stack, now, screen, history, decryptCall>>

\* one step of the loop task
LoopStep == LoopPoll \/ LoopPaint \/ LoopCommit \/ LoopTimers

\* the Arduino core runs setup() to its end and then calls loop() for ever,
\* whatever the BLE task does in between
SpecFair == Spec /\ WF_vars(Setup) /\ WF_vars(LoopStep)

\* setup followed by calls of decryptRSA
NextCrypto ==
  \/ Setup
  \/ DecryptCall

SpecCrypto == Init /\ [][NextCrypto]_vars

\* setup, loop and the connection callbacks with a radio that may refuse
NextRadio ==
  \/ Setup
  \/ PeerConnect
  \/ PeerDisconnect
  \/ LoopPoll
  \/ LoopPaint
  \/ LoopCommit
  \/ LoopTimers
  \/ RadioRefuses
  \/ RadioAccepts

SpecRadio == Init /\ [][NextRadio]_vars /\ WF_vars(Setup) /\ WF_vars(LoopStep)

(* ------------------------- connection lifecycle ----------------------- *)
\* C1: in every reachable state, for any interleaving of peer-connect and
\* peer-disconnect events after startup, isConnected implies that the device
\* is not advertising.
C1_ConnectedNotAdvertising == isConnected => ~advertising

\* C1 case: connected again after an earlier connection was dropped
C1_Witness == isConnected /\ ~advertising /\ nConnect = 2 /\ nDisconnect >= 1

C10_CountsConnects == connectionCount = nConnect

(* --------------------------- inbound writes --------------------------- *)
\* the message screen painted by the latest non-empty write is still up
ShowsInbound == Len(inbound) > 0 /\ screen.kind = "message"

\* what decryptRSA would return for the latest inbound payload
InboundDecrypt == decryptRSA(rsaInitialized, inbound)

\* C3 as claimed: with decryption enabled, when the latest non-empty write
\* decrypts successfully the message on the display is the decrypted
\* plaintext (not the received bytes), and the acknowledgement was written
\* and notified.
C3_ShowsPlaintext ==
  (rsaInitialized /\ ShowsInbound /\ InboundDecrypt.ret)
    => /\ screen.msg = InboundDecrypt.data
       /\ lastMessage = InboundDecrypt.data
       /\ charValue = ACK_TEXT
       /\ notifyCount = messageCount

\* C4 as claimed: with decryption enabled, a non-empty write that fails to
\* decrypt is never presented as a received message (a failure indication
\* is shown instead), and the acknowledgement is still written.
C4_FailureIndicated ==
  (rsaInitialized /\ Len(inbound) > 0 /\ ~InboundDecrypt.ret)
    => /\ screen.kind # "message"
       /\ charValue = ACK_TEXT

\* C5: an onWrite with an empty payload leaves the display, lastMessage,
\* messageDisplayed and messageCount unchanged, invokes no notify, and the
\* characteristic does not hold the acknowledgement afterwards.
C5_EmptyWriteIgnored ==
  [][(nWrites' = nWrites + 1 /\ inbound' = <<>>)
       => /\ UNCHANGED <<screen, lastMessage, messageDisplayed, messageCount, notifyCount>>
          /\ charValue' # ACK_TEXT]_vars

\* C5 case: an empty write arrived while an earlier message was on display
C5_Witness ==
  /\ nWrites = 2 /\ inbound = <<>> /\ charValue = <<>>
  /\ messageCount = 1 /\ notifyCount = 1 /\ messageDisplayed /\ screen.kind = "message"

\* C6 as claimed: with decryption disabled, the message on display after a
\* non-empty write is exactly the received bytes, shown with the running
\* message count; the characteristic holds the fixed acknowledgement and
\* notify ran once per such write.
C6_ShowsRawBytes ==
  (~rsaInitialized /\ ShowsInbound)
    => /\ screen.msg = inbound
       /\ lastMessage = inbound
       /\ screen.count = messageCount
       /\ charValue = ACK_TEXT
       /\ notifyCount = messageCount

(* ------------------------------ startup ------------------------------- *)
KeyLoadFailed == keyCause \in {"mount", "seed", "open", "alloc", "parse"}

\* the try block of setup threw
BleInitFailed == bootThrow # "none"

C9_ModeFixedAtStartup ==
  [][pc # "setup" => /\ rsaInitialized' = rsaInitialized
                       /\ keyTrace'.calls = keyTrace.calls]_vars

\* C9 case: decryption disabled at startup, and connects, a disconnect, a
\* write and loop iterations have all happened since
C9_Witness ==
  /\ pc = "commit" /\ ~rsaInitialized /\ keyTrace.calls = 1
  /\ nConnect = 2 /\ nDisconnect >= 1 /\ nWrites >= 1

(* ----------------------- periodic notifications ----------------------- *)
\* Scenario: the peer connects as soon as setup has finished, before the
\* first loop iteration, so the connection dates from startTime; no writes.
ConnectAtBoot == pc = "poll" /\ currentTime = 0 /\ PeerConnect

NextD ==
  \/ Setup
  \/ ConnectAtBoot
  \/ PeerDisconnect
  \/ LoopPoll
  \/ LoopPaint
  \/ LoopCommit
  \/ LoopTimers

SpecD == Init /\ [][NextD]_vars

\* C7 as claimed: while connected, every elapsed 2000 ms interval yields
\* one timer-driven notify(): when a loop iteration that read the clock at
\* currentTime has completed, at least one notify per interval elapsed up to
\* currentTime has been made, and never more than one per interval elapsed
\* (so three elapsed intervals give exactly three).
C7_PeriodicNotify ==
  (pc = "poll" /\ isConnected /\ nDisconnect = 0 /\ currentTime >= startTime)
    => /\ notifyCount >= (currentTime - startTime) \div 2000
       /\ notifyCount <= (now - startTime) \div 2000

(* ------------------------------ counters ------------------------------ *)
\* C11 as claimed: a peer-disconnect delivered when the session is already
\* disconnected (the repeat of a disconnect) changes neither isConnected
\* nor the advertising state nor connectionCount.
C11_DisconnectIdempotent ==
  [][(nDisconnect' = nDisconnect + 1 /\ ~isConnected)
       => /\ isConnected' = isConnected
          /\ advertising' = advertising
          /\ connectionCount' = connectionCount]_vars

\* C17: messageCount goes up by exactly one on a non-empty write and is
\* left alone by every other step (empty writes, connects, disconnects,
\* loop steps); it starts at 0, so it is the number of non-empty writes.
C17_CountsNonEmptyWrites ==
  [][IF nWrites' = nWrites + 1 /\ Len(inbound') > 0
     THEN messageCount' = messageCount + 1
     ELSE messageCount' = messageCount]_vars

\* C17 case: one message and one empty write were received, the peer left,
\* and the loop painted the waiting screen with "Messages: 1"
C17_Witness ==
  /\ nWrites = 2 /\ messageCount = 1 /\ nDisconnect >= 1
  /\ screen.kind = "waiting" /\ screen.data = "messages" /\ screen.count = 1

\* every disconnect so far ended a connection: connects and disconnects
\* have alternated strictly, starting with a connect
Alternating == nDisconnect = nConnect - (IF isConnected THEN 1 ELSE 0)

\* C18: while connects and disconnects alternate strictly, connectionCount
\* is 0 or 1, it is 1 exactly when isConnected, and so it has not wrapped
\* below zero.
C18_CountIsConnected ==
  Alternating => /\ connectionCount \in {0, 1}
                 /\ (connectionCount = 1) <=> isConnected

\* C18 case: second connection, after a first one that was closed once
C18_Witness ==
  Alternating /\ nConnect = 2 /\ nDisconnect = 1 /\ isConnected /\ connectionCount = 1

(* --------------------------- key file and buffer ---------------------- *)
\* the operations of a trace that touch keyFile, and those that touch keyBuffer
FileUses == {"size", "readBytes"}
BufferUses == {"readBytes", "store", "parse"}

\* the position of the first occurrence of operation op in ops
FirstAt(ops, op) == SetMin({i \in DOMAIN ops : ops[i] = op})

\* every operation of `uses` lies between the one `acquire` and the one
\* `release` of the trace, when the resource was acquired at all, and there
\* is none when it was not
HeldAround(ops, acquire, release, uses) ==
  IF \A i \in DOMAIN ops : ops[i] # acquire
  THEN \A i \in DOMAIN ops : ops[i] \notin uses \cup {release}
  ELSE /\ Occurrences(ops, acquire) = 1
       /\ Occurrences(ops, release) = 1
       /\ \A k \in DOMAIN ops :
            ops[k] \in uses => (FirstAt(ops, acquire) < k /\ k < FirstAt(ops, release))

\* C15: on every path through initRSA, once keyFile is open it is closed
\* exactly once before the return, once keyBuffer is allocated it is freed
\* exactly once before the return, and the buffer is not used after free.
C15_KeyResourcesReleased ==
  /\ keyTrace.opens = keyTrace.closes
  /\ keyTrace.mallocs = keyTrace.frees
  /\ HeldAround(keyTrace.ops, "open", "close", FileUses)
  /\ HeldAround(keyTrace.ops, "malloc", "free", BufferUses)

\* C15 cases: the malloc-failure path (file opened, no buffer) and the
\* parse-failure path (file and buffer both acquired) have both been taken
C15_Witness ==
  keyCause \in {"alloc", "parse"} /\ keyTrace.opens = 1 /\ keyTrace.closes = 1

(* ------------------------- message on the screen ---------------------- *)
\* C16 as claimed: a message presented by onWrite stays presented
\* (messageDisplayed true, the message screen not repainted) over every step
\* that is not a peer-connect or peer-disconnect.  Stated for the first
\* connection, before any disconnect: there a presented message was written
\* after the only connection event so far, so no such event lies between
\* the write and the step.
C16_MessageStays ==
  [][(/\ messageDisplayed /\ screen.kind = "message"
      /\ nConnect = 1 /\ nDisconnect = 0
      /\ nConnect' = nConnect /\ nDisconnect' = nDisconnect)
       => (messageDisplayed' /\ screen'.kind = "message")]_vars

(* ------------------------ status presentation ------------------------- *)
\* C12 as claimed: every peer-connect is eventually followed by a painting
\* of the Connected screen, and every peer-disconnect of a connection by a
\* painting of the Waiting screen, whatever the interleaving with the loop.
\* A connect is pending while isConnected /\ ~lastState, a disconnect while
\* ~isConnected /\ lastState or, for a connection the loop never recorded,
\* once nDisconnect > 0.
C12_EveryChangePresented ==
  /\ (isConnected /\ ~lastState) ~> (screen.kind = "connected")
  /\ (nDisconnect = 1) ~> (screen.kind = "waiting")

\* the screen agrees with isConnected: while connected it shows the
\* Connected screen or a message received on the connection, while
\* disconnected the Waiting screen or the Ready screen setup left
ShowsStatus ==
  IF isConnected THEN screen.kind \in {"connected", "message"}
  ELSE screen.kind \in {"waiting", "ready"}

\* C19 as claimed: once connection events have stopped (each run of the
\* model has finitely many), lastState == isConnected comes to hold for
\* ever and, where BLE came up, the screen then shows the matching status.
C19_Converges ==
  <>[](lastState = isConnected /\ (bleUp => ShowsStatus))

(* -------------------------- refused advertising ----------------------- *)
\* BLE is up, nobody is connected and the device does not advertise: a
\* request to start advertising was refused
AdvertisingFailed == bleUp /\ ~isConnected /\ ~advertising

\* C13 as claimed: when a start of advertising was refused, the request is
\* made again on later loop iterations, so if the radio accepts from some
\* point on, the device comes to advertise.
C13_AdvertisingRetried ==
  <>[](~radioBusy) => (AdvertisingFailed ~> advertising)

(* ------------------------- decrypt without a key ---------------------- *)
\* C14: a call of decryptRSA made while rsaInitialized is false returns
\* false, does not invoke mbedtls_pk_decrypt, and leaves the caller's
\* output buffer and output length as they were.
C14_NoKeyNoDecrypt ==
  (decryptCall.n > 0 /\ ~rsaInitialized)
    => /\ decryptCall.ret = FALSE
       /\ decryptCall.pkCalls = 0
       /\ decryptCall.decryptedData = decryptCall.before.decryptedData
       /\ decryptCall.decryptedLen = decryptCall.before.decryptedLen

\* C14 case: key loading failed and decryptRSA was called twice, the last
\* time on a well-formed ciphertext and a buffer that held two bytes
C14_Witness ==
  /\ ~rsaInitialized /\ keyCause = "parse" /\ decryptCall.n = 2
  /\ decryptCall.before.decryptedData = <<1, 0>> /\ decryptCall.before.decryptedLen = 2

====
